---- MODULE Spec2Model ----
(***************************************************************************)
(* Model of src/app.rs (your_excellency): the per-frame combat simulation. *)
(*                                                                         *)
(* Numbers are f32 in the source.  Every quantity of the model is a small  *)
(* integer or half-integer, which f32 represents and adds, subtracts,      *)
(* multiplies and compares exactly, so exact arithmetic is the source's    *)
(* arithmetic on the modelled inputs.  In the game, times and distances    *)
(* are held in halves (the value x as the integer x * PerUnit); speeds,    *)
(* hit points and damages are whole numbers and held as they are, so that  *)
(* `distance -= delta * speed` stays a product of integers.                *)
(*                                                                         *)
(* Specifications:                                                         *)
(*   Spec         - the game: GameState::default followed by               *)
(*                  GameState::tick calls interleaved with the widgets of  *)
(*                  GameState::update.                                     *)
(*   SpecE2E      - the game ticked with delta = 0.5 only, default         *)
(*                  configuration, Reset HP clicks in between.             *)
(*   SpecSiege    - the game ticked with long frames, which brings the     *)
(*                  excellency's hit points to zero and below.             *)
(*   SpecTimer    - Timer::tick alone, applied to bounded Timer values.    *)
(*   SpecTimerNew - Timer::new(total) for any total, then Timer::tick.     *)
(***************************************************************************)
EXTENDS Integers, Sequences, FiniteSets, TLC

VARIABLES
    excellency,     \* GameState.excellency : Excellency
    enemies,        \* GameState.enemies : Vec<Enemy>
    enemy_spawner,  \* GameState.enemy_spawner : EnemySpawner
    last,           \* history: the stages of the most recent GameState::tick
    ticks,          \* history: number of GameState::tick calls so far
    next_id,        \* history: number of enemies constructed so far
    widget_uses,    \* history: number of widget interactions so far
    lives,          \* history: per constructed enemy, when it was pushed and when it left
    timer,          \* SpecTimer: the Timer under test
    t_first,        \* SpecTimer history: the Timer before the first Timer::tick
    t_prev,         \* SpecTimer history: the Timer before the most recent Timer::tick
    t_delta,        \* SpecTimer history: delta of the most recent Timer::tick
    t_calls,        \* SpecTimer history: number of Timer::tick calls so far
    t_fires,        \* SpecTimer history: number of those calls that fired the timer
    t_elapsed,      \* SpecTimer history: sum of the deltas of those calls
    t_bounded       \* SpecTimer history: every delta was below remaining + total

game_vars == <<excellency, enemies, enemy_spawner, last, ticks, next_id, widget_uses, lives>>
timer_vars == <<timer, t_first, t_prev, t_delta, t_calls, t_fires, t_elapsed, t_bounded>>
vars == <<excellency, enemies, enemy_spawner, last, ticks, next_id, widget_uses, lives,
          timer, t_first, t_prev, t_delta, t_calls, t_fires, t_elapsed, t_bounded>>

----------------------------------------------------------------------------
(* Bounds of the model *)

MaxTicks == 5          \* GameState::tick calls per behaviour
MaxWidgetUses == 2     \* slider drags and button clicks per behaviour
MaxTotal == 3          \* largest Timer.total of SpecTimer
MaxTimerDelta == 4     \* largest delta of SpecTimer
MaxCalls == 3          \* Timer::tick calls per behaviour of SpecTimer
E2ETicks == 80         \* GameState::tick calls per behaviour of SpecE2E
SiegeTicks == 9        \* GameState::tick calls per behaviour of SpecSiege

\* times and distances of the game are held in halves
PerUnit == 2

\* stable_dt values handed to GameState::tick: 0, 1 and 5
Deltas == {0, 1 * PerUnit, 5 * PerUnit}

\* positions the modelled sliders are dragged to (each within the slider's range)
SpeedValues == {5, 20}
MaximumHpValues == {10, 0}
BasicDamageValues == {4, 10}
BasicMaxTargetsValues == {1, 3}
BigDamageValues == {30, 5}
BigRangeValues == {20 * PerUnit, 50 * PerUnit}

\* SpecSiege: the stable_dt of a long frame, and the positions of the spawner's Damage
\* slider
SiegeDeltas == {14 * PerUnit}
DamageValues == {20, 10}

----------------------------------------------------------------------------
(* Timer *)

Timer_new(total) ==
    [total |-> total, remaining |-> total, has_just_finished |-> FALSE,
     one_shot |-> FALSE, paused |-> FALSE]

\* variant: the period counts as elapsed only once remaining is below zero
Timer_elapsed_Strict(remaining) == remaining < 0

\* `self.remaining <= 0.`
Timer_elapsed(remaining) == remaining <= 0

\* variant: the `if !self.paused` guard is missing
Timer_tick_IgnoresPause(t, delta) ==
    LET r == t.remaining - delta IN
    IF Timer_elapsed(r)
    THEN [t EXCEPT !.has_just_finished = TRUE,
                   !.remaining = r + t.total,
                   !.paused = IF t.one_shot THEN TRUE ELSE @]
    ELSE [t EXCEPT !.remaining = r,
                   !.has_just_finished = FALSE]

\* variant: a one-shot timer is not paused when it fires
Timer_tick_OneShotKeepsRunning(t, delta) ==
    IF ~t.paused
    THEN LET r == t.remaining - delta IN
         IF Timer_elapsed(r)
         THEN [t EXCEPT !.has_just_finished = TRUE,
                        !.remaining = r + t.total]
         ELSE [t EXCEPT !.remaining = r,
                        !.has_just_finished = FALSE]
    ELSE t

\* variant: remaining is reset to total when the timer fires, the overshoot is lost
Timer_tick_ResetsRemaining(t, delta) ==
    IF ~t.paused
    THEN LET r == t.remaining - delta IN
         IF Timer_elapsed(r)
         THEN [t EXCEPT !.has_just_finished = TRUE,
                        !.remaining = t.total,
                        !.paused = IF t.one_shot THEN TRUE ELSE @]
         ELSE [t EXCEPT !.remaining = r,
                        !.has_just_finished = FALSE]
    ELSE t

Timer_tick(t, delta) ==
    IF ~t.paused
    THEN LET r == t.remaining - delta IN
         IF Timer_elapsed(r)
         THEN [t EXCEPT !.has_just_finished = TRUE,
                        !.remaining = r + t.total,
                        !.paused = IF t.one_shot THEN TRUE ELSE @]
         ELSE [t EXCEPT !.remaining = r,
                        !.has_just_finished = FALSE]
    ELSE t

Timer_has_just_finished(t) == t.has_just_finished

----------------------------------------------------------------------------
(* HitPoints, Distance, Enemy *)

HitPoints_new_full(maximum) == [maximum |-> maximum, current |-> maximum]

\* variant: take_damage stops at zero
HitPoints_take_damage_Floored(hp, damage) ==
    [hp EXCEPT !.current = IF @ - damage < 0 THEN 0 ELSE @ - damage]

HitPoints_take_damage(hp, damage) == [hp EXCEPT !.current = @ - damage]

\* variant: reset adds maximum to current instead of assigning it
HitPoints_reset_Adds(hp) == [hp EXCEPT !.current = @ + hp.maximum]

HitPoints_reset(hp) == [hp EXCEPT !.current = hp.maximum]

Distance_start == 100 * PerUnit

\* variant: the enemy advances by delta, its speed is left out
Enemy_tick_IgnoresSpeed(e, delta) == [e EXCEPT !.distance = @ - delta]

\* Enemy::tick: the enemy after `self.distance.0 -= delta * self.speed`
Enemy_tick(e, delta) == [e EXCEPT !.distance = @ - delta * e.speed]

\* variant: an enemy at distance exactly 0 has not reached the excellency
Enemy_Normal_AtZero(e) == e.distance >= 0

\* Enemy::tick's result: TRUE for EnemyAfterTick::Normal
Enemy_Normal(e) == e.distance > 0

----------------------------------------------------------------------------
(* GameState::tick, stage by stage *)

\* variant: an enemy that reached the excellency damages it and is pushed all the same,
\* so that the attacks of the tick still see it
RECURSIVE MoveStage_KeepsArrived(_, _, _, _, _)
MoveStage_KeepsArrived(es, i, delta, kept, hp) ==
    IF i > Len(es) THEN [kept |-> kept, hp |-> hp]
    ELSE LET e == Enemy_tick(es[i], delta) IN
         IF Enemy_Normal(e)
         THEN MoveStage_KeepsArrived(es, i + 1, delta, Append(kept, e), hp)
         ELSE MoveStage_KeepsArrived(es, i + 1, delta, Append(kept, e),
                                     HitPoints_take_damage(hp, e.damage))

\* the movement loop: Normal enemies are pushed in order, the others damage the excellency
RECURSIVE MoveStage(_, _, _, _, _)
MoveStage(es, i, delta, kept, hp) ==
    IF i > Len(es) THEN [kept |-> kept, hp |-> hp]
    ELSE LET e == Enemy_tick(es[i], delta) IN
         IF Enemy_Normal(e)
         THEN MoveStage(es, i + 1, delta, Append(kept, e), hp)
         ELSE MoveStage(es, i + 1, delta, kept, HitPoints_take_damage(hp, e.damage))

\* the Enemy literal pushed when the spawner timer has just finished
\* (id is a history field: the source's enemies carry no identity)
NewEnemy(sp, id) ==
    [id |-> id,
     hp |-> HitPoints_new_full(sp.maximum_hp),
     damage |-> sp.damage,
     speed |-> sp.speed,
     distance |-> Distance_start]

\* variant: an enemy is pushed whether or not the spawner timer has just finished
SpawnStage_Always(kept, sp_timer, sp, id) == Append(kept, NewEnemy(sp, id))

SpawnStage(kept, sp_timer, sp, id) ==
    IF Timer_has_just_finished(sp_timer) THEN Append(kept, NewEnemy(sp, id)) ELSE kept

\* variant: equal distances compare as out of order, which makes the sort unstable
Goes_before_or_equal_Strict(a, b) == a.distance < b.distance

\* the comparator of sort_by: a goes before b unless a.distance > b.distance
Goes_before_or_equal(a, b) == a.distance <= b.distance

\* slice::sort_by is a stable sort; on the short vectors of the model it is an
\* insertion sort: each element is moved left past the elements that compare greater
RECURSIVE InsertSorted(_, _)
InsertSorted(s, e) ==
    IF s = <<>> THEN <<e>>
    ELSE IF Goes_before_or_equal(s[Len(s)], e) THEN Append(s, e)
    ELSE Append(InsertSorted(SubSeq(s, 1, Len(s) - 1), e), s[Len(s)])

RECURSIVE SortFrom(_, _, _)
SortFrom(es, i, acc) ==
    IF i > Len(es) THEN acc ELSE SortFrom(es, i + 1, InsertSorted(acc, es[i]))

SortStage(es) == SortFrom(es, 1, <<>>)

\* variant: the budget test is off by one
BudgetSpent_OffByOne(targets_hit, atk) == targets_hit > atk.max_targets

\* `targets_hit >= self.excellency.basic_attack.max_targets`
BudgetSpent(targets_hit, atk) == targets_hit >= atk.max_targets

\* variant: the range test is missing, every enemy is eligible
InRange_NoRangeTest(e, atk) == TRUE

\* `enemy.distance.0 <= self.excellency.basic_attack.range`
InRange(e, atk) == e.distance <= atk.range

\* variant: an enemy left at exactly 0 hit points is not removed
Killed_BelowZero(e) == e.hp.current < 0

\* `enemy.hp.current <= 0.`
Killed(e) == e.hp.current <= 0

\* the filter_map closure applied along the vector, targets_hit threaded through
RECURSIVE FilterMap(_, _, _, _)
FilterMap(es, i, targets_hit, atk) ==
    IF i > Len(es) THEN <<>>
    ELSE LET e == es[i] IN
         IF BudgetSpent(targets_hit, atk)
         THEN <<e>> \o FilterMap(es, i + 1, targets_hit, atk)
         ELSE IF InRange(e, atk)
         THEN LET h == [e EXCEPT !.hp = HitPoints_take_damage(@, atk.damage)] IN
              (IF Killed(h) THEN <<>> ELSE <<h>>)
                  \o FilterMap(es, i + 1, targets_hit + 1, atk)
         ELSE <<e>> \o FilterMap(es, i + 1, targets_hit, atk)

\* one attack block of tick: the vector is replaced only if the cooldown has just finished
AttackStage(es, atk_timer, atk) ==
    IF Timer_has_just_finished(atk_timer) THEN FilterMap(es, 1, 0, atk) ELSE es

\* variant: the two attack blocks are resolved in the opposite order
AttackStages_BigFirst(sorted, basic_timer, basic, big_timer, big) ==
    LET after_first == AttackStage(sorted, big_timer, big) IN
    [after_basic |-> after_first,
     after_big |-> AttackStage(after_first, basic_timer, basic)]

\* the two attack blocks in sequence: the big attack filters what the basic attack left
AttackStages(sorted, basic_timer, basic, big_timer, big) ==
    LET after_basic == AttackStage(sorted, basic_timer, basic) IN
    [after_basic |-> after_basic,
     after_big |-> AttackStage(after_basic, big_timer, big)]

\* the damage, range and max_targets an attack block reads
AttackCfg(a) == [damage |-> a.damage, range |-> a.range, max_targets |-> a.max_targets]

----------------------------------------------------------------------------
(* The game *)

DefaultExcellency ==
    [hp |-> HitPoints_new_full(100),
     basic_attack |-> [cooldown_timer |-> Timer_new(2 * PerUnit), damage |-> 4,
                       range |-> 35 * PerUnit, max_targets |-> 3],
     big_attack |-> [cooldown_timer |-> Timer_new(10 * PerUnit), damage |-> 30,
                     range |-> 20 * PerUnit, max_targets |-> 10]]

DefaultSpawner ==
    [timer |-> Timer_new(1 * PerUnit), maximum_hp |-> 10, speed |-> 5, damage |-> 2]

NoTick ==
    [delta |-> 0, elapsed |-> 0, pre_enemies |-> <<>>, pre_hp |-> HitPoints_new_full(100),
     hp |-> HitPoints_new_full(100),
     kept |-> <<>>, spawned |-> <<>>, sorted |-> <<>>,
     after_basic |-> <<>>, after_big |-> <<>>,
     spawner_fired |-> FALSE, basic_fired |-> FALSE, big_fired |-> FALSE,
     spawner |-> DefaultSpawner,
     basic |-> AttackCfg(DefaultExcellency.basic_attack),
     big |-> AttackCfg(DefaultExcellency.big_attack),
     pre_basic_timer |-> DefaultExcellency.basic_attack.cooldown_timer,
     pre_big_timer |-> DefaultExcellency.big_attack.cooldown_timer]

GameDefault ==
    /\ excellency = DefaultExcellency
    /\ enemy_spawner = DefaultSpawner
    /\ enemies = <<>>
    /\ last = NoTick
    /\ ticks = 0
    /\ next_id = 0
    /\ widget_uses = 0
    /\ lives = <<>>

TimerIdle ==
    /\ timer = Timer_new(1)
    /\ t_first = Timer_new(1)
    /\ t_prev = Timer_new(1)
    /\ t_delta = 0
    /\ t_calls = 0
    /\ t_fires = 0
    /\ t_elapsed = 0
    /\ t_bounded = TRUE

Init == GameDefault /\ TimerIdle

\* history of enemy number i (id i - 1) after a tick of delta that leaves the enemies
\* after: dmin is the least delta of the ticks since the one that pushed it (-1: none
\* yet), left the number of the tick that removed it (0: still live)
LifeAfter(l, i, delta, after, now) ==
    IF l.left > 0 THEN l
    ELSE [l EXCEPT !.dmin = IF @ = -1 \/ delta < @ THEN delta ELSE @,
                   !.left = IF \E k \in DOMAIN after : after[k].id = i - 1 THEN 0 ELSE now]

tick(delta) ==
    /\ LET mv == MoveStage(enemies, 1, delta, <<>>, excellency.hp)
           sp_timer == Timer_tick(enemy_spawner.timer, delta)
           spawned == SpawnStage(mv.kept, sp_timer, enemy_spawner, next_id)
           sorted == SortStage(spawned)
           basic_timer == Timer_tick(excellency.basic_attack.cooldown_timer, delta)
           big_timer == Timer_tick(excellency.big_attack.cooldown_timer, delta)
           atk == AttackStages(sorted, basic_timer, excellency.basic_attack,
                               big_timer, excellency.big_attack)
           after_basic == atk.after_basic
           after_big == atk.after_big
       IN /\ excellency' = [excellency EXCEPT
                                !.hp = mv.hp,
                                !.basic_attack.cooldown_timer = basic_timer,
                                !.big_attack.cooldown_timer = big_timer]
          /\ enemy_spawner' = [enemy_spawner EXCEPT !.timer = sp_timer]
          /\ enemies' = after_big
          /\ next_id' = IF Len(spawned) > Len(mv.kept) THEN next_id + 1 ELSE next_id
          /\ last' = [delta |-> delta, elapsed |-> last.elapsed + delta,
                      pre_enemies |-> enemies, pre_hp |-> excellency.hp,
                      hp |-> mv.hp,
                      kept |-> mv.kept, spawned |-> spawned, sorted |-> sorted,
                      after_basic |-> after_basic, after_big |-> after_big,
                      spawner_fired |-> Timer_has_just_finished(sp_timer),
                      basic_fired |-> Timer_has_just_finished(basic_timer),
                      big_fired |-> Timer_has_just_finished(big_timer),
                      spawner |-> enemy_spawner,
                      basic |-> AttackCfg(excellency.basic_attack),
                      big |-> AttackCfg(excellency.big_attack),
                      pre_basic_timer |-> excellency.basic_attack.cooldown_timer,
                      pre_big_timer |-> excellency.big_attack.cooldown_timer]
          /\ lives' = LET old == [i \in DOMAIN lives |->
                                     LifeAfter(lives[i], i, delta, after_big, ticks + 1)]
                      IN IF Len(spawned) > Len(mv.kept)
                         THEN Append(old, [born |-> ticks + 1,
                                           speed |-> enemy_spawner.speed,
                                           dmin |-> -1,
                                           left |-> IF \E k \in DOMAIN after_big :
                                                          after_big[k].id = next_id
                                                    THEN 0 ELSE ticks + 1])
                         ELSE old
    /\ ticks' = ticks + 1
    /\ UNCHANGED widget_uses
    /\ UNCHANGED timer_vars

Tick == ticks < MaxTicks /\ \E delta \in Deltas : tick(delta)

\* the widgets of GameState::update run after self.tick(ctx), so never before the first
\* tick; a widget is modelled only while a later tick can still observe its effect
WidgetsShown == ticks > 0 /\ ticks < MaxTicks /\ widget_uses < MaxWidgetUses

SpeedSlider ==
    /\ WidgetsShown
    /\ \E v \in SpeedValues : enemy_spawner' = [enemy_spawner EXCEPT !.speed = v]
    /\ UNCHANGED <<excellency, enemies, last, ticks, next_id, lives>>
    /\ widget_uses' = widget_uses + 1
    /\ UNCHANGED timer_vars

MaximumHpSlider ==
    /\ WidgetsShown
    /\ \E v \in MaximumHpValues : enemy_spawner' = [enemy_spawner EXCEPT !.maximum_hp = v]
    /\ UNCHANGED <<excellency, enemies, last, ticks, next_id, lives>>
    /\ widget_uses' = widget_uses + 1
    /\ UNCHANGED timer_vars

BasicDamageSlider ==
    /\ WidgetsShown
    /\ \E v \in BasicDamageValues : excellency' = [excellency EXCEPT !.basic_attack.damage = v]
    /\ UNCHANGED <<enemy_spawner, enemies, last, ticks, next_id, lives>>
    /\ widget_uses' = widget_uses + 1
    /\ UNCHANGED timer_vars

BasicMaxTargetsSlider ==
    /\ WidgetsShown
    /\ \E v \in BasicMaxTargetsValues :
           excellency' = [excellency EXCEPT !.basic_attack.max_targets = v]
    /\ UNCHANGED <<enemy_spawner, enemies, last, ticks, next_id, lives>>
    /\ widget_uses' = widget_uses + 1
    /\ UNCHANGED timer_vars

BigDamageSlider ==
    /\ WidgetsShown
    /\ \E v \in BigDamageValues : excellency' = [excellency EXCEPT !.big_attack.damage = v]
    /\ UNCHANGED <<enemy_spawner, enemies, last, ticks, next_id, lives>>
    /\ widget_uses' = widget_uses + 1
    /\ UNCHANGED timer_vars

BigRangeSlider ==
    /\ WidgetsShown
    /\ \E v \in BigRangeValues : excellency' = [excellency EXCEPT !.big_attack.range = v]
    /\ UNCHANGED <<enemy_spawner, enemies, last, ticks, next_id, lives>>
    /\ widget_uses' = widget_uses + 1
    /\ UNCHANGED timer_vars

ResetHP ==
    /\ WidgetsShown
    /\ excellency' = [excellency EXCEPT !.hp = HitPoints_reset(@)]
    /\ UNCHANGED <<enemy_spawner, enemies, last, ticks, next_id, lives>>
    /\ widget_uses' = widget_uses + 1
    /\ UNCHANGED timer_vars

Next ==
    \/ Tick
    \/ SpeedSlider
    \/ MaximumHpSlider
    \/ BasicDamageSlider
    \/ BasicMaxTargetsSlider
    \/ BigDamageSlider
    \/ BigRangeSlider
    \/ ResetHP

Spec == Init /\ [][Next]_vars

----------------------------------------------------------------------------
(* The game at a steady frame rate: every stable_dt is 0.5 *)

E2ETick == ticks < E2ETicks /\ tick(PerUnit \div 2)

\* the Reset HP button, between the ticks
E2EResetHP ==
    /\ ticks > 0 /\ ticks < E2ETicks /\ widget_uses < MaxWidgetUses
    /\ excellency' = [excellency EXCEPT !.hp = HitPoints_reset(@)]
    /\ UNCHANGED <<enemy_spawner, enemies, last, ticks, next_id, lives>>
    /\ widget_uses' = widget_uses + 1
    /\ UNCHANGED timer_vars

E2ENext == E2ETick \/ E2EResetHP

SpecE2E == Init /\ [][E2ENext]_vars

----------------------------------------------------------------------------
(* The game with long frames and the spawner's Damage slider *)

SiegeTick == ticks < SiegeTicks /\ \E delta \in SiegeDeltas : tick(delta)

DamageSlider ==
    /\ ticks > 0 /\ ticks < SiegeTicks /\ widget_uses < MaxWidgetUses
    /\ \E v \in DamageValues : enemy_spawner' = [enemy_spawner EXCEPT !.damage = v]
    /\ UNCHANGED <<excellency, enemies, last, ticks, next_id, lives>>
    /\ widget_uses' = widget_uses + 1
    /\ UNCHANGED timer_vars

SiegeNext == SiegeTick \/ DamageSlider

SpecSiege == Init /\ [][SiegeNext]_vars

----------------------------------------------------------------------------
(* Timer::tick alone *)

\* the Timer values Timer::tick is applied to: every field drawn from a bounded set
TimerValues ==
    {[total |-> tot, remaining |-> rem, has_just_finished |-> f,
      one_shot |-> o, paused |-> p] :
        tot \in 1..MaxTotal, rem \in 1..MaxTotal, f \in BOOLEAN,
        o \in BOOLEAN, p \in BOOLEAN}

\* no Timer::tick call made yet on the Timer under test
TimerUnticked ==
    /\ t_first = timer
    /\ t_prev = timer
    /\ t_delta = 0
    /\ t_calls = 0
    /\ t_fires = 0
    /\ t_elapsed = 0
    /\ t_bounded = TRUE

TimerInit ==
    /\ timer \in {t \in TimerValues : t.remaining <= t.total}
    /\ TimerUnticked
    /\ GameDefault

TimerTick ==
    /\ t_calls < MaxCalls
    /\ \E delta \in 0..MaxTimerDelta :
           /\ timer' = Timer_tick(timer, delta)
           /\ t_delta' = delta
           /\ t_elapsed' = t_elapsed + delta
           /\ t_bounded' = (t_bounded /\ delta < timer.remaining + timer.total)
    /\ t_fires' = IF ~timer.paused /\ Timer_has_just_finished(timer') THEN t_fires + 1 ELSE t_fires
    /\ t_prev' = timer
    /\ t_calls' = t_calls + 1
    /\ UNCHANGED t_first
    /\ UNCHANGED game_vars

SpecTimer == TimerInit /\ [][TimerTick]_vars

\* the totals Timer::new is called with in SpecTimerNew: it takes any f32
NewTotals == (-1)..MaxTotal

TimerNewInit ==
    /\ \E total \in NewTotals : timer = Timer_new(total)
    /\ TimerUnticked
    /\ GameDefault

\* Timer::new(total) followed by Timer::tick calls
SpecTimerNew == TimerNewInit /\ [][TimerTick]_vars

----------------------------------------------------------------------------
(* Properties of Timer::tick, checked under SpecTimer *)

\* the most recent call was made on an unpaused timer and set has_just_finished
TimerFired == t_calls > 0 /\ ~t_prev.paused /\ timer.has_just_finished

\* C8: for a Timer with total > 0, after every Timer::tick(delta) call with delta >= 0 in
\* which the timer fires, remaining lies in (0, total], whatever remaining was before.
C8_RemainingRenormalized ==
    (TimerFired /\ timer.total > 0 /\ t_delta >= 0)
        => (0 < timer.remaining /\ timer.remaining <= timer.total)

\* C9: ticking an unpaused timer by exactly its current remaining fires it and leaves
\* remaining = total; in particular a fresh Timer::new(T) ticked by T.
C9_Wraparound ==
    (t_calls > 0 /\ ~t_prev.paused /\ t_delta = t_prev.remaining)
        => (timer.has_just_finished /\ timer.remaining = timer.total)

\* a fresh Timer::new(T), T > 1, after its first call, which was tick(T)
C9_Witness ==
    /\ t_calls = 1
    /\ t_prev = Timer_new(t_prev.total)
    /\ t_prev.total > 1
    /\ t_delta = t_prev.total

\* C10: while paused, any sequence of Timer::tick calls with any deltas leaves remaining,
\* has_just_finished, paused, total and one_shot unchanged.
C10_PausedUnchanged ==
    /\ (t_calls > 0 /\ t_prev.paused) => timer = t_prev
    /\ t_first.paused => timer = t_first

\* a timer constructed paused, after MaxCalls calls the last of which had a delta that
\* would have fired it
C10_Witness ==
    /\ t_first.paused
    /\ t_calls = MaxCalls
    /\ t_delta >= t_first.remaining
    /\ ~t_first.has_just_finished

\* C11: a one-shot Timer with total > 0 fires exactly once: the first tick that brings
\* remaining <= 0 sets has_just_finished and paused, and every later tick leaves paused,
\* has_just_finished and remaining as they are.
C11_OneShot ==
    (t_first.one_shot /\ ~t_first.paused /\ t_first.total > 0) =>
        /\ t_fires <= 1
        /\ (t_calls > 0 /\ ~t_prev.paused /\ t_prev.remaining - t_delta <= 0)
               => (t_fires = 1 /\ timer.has_just_finished /\ timer.paused)
        /\ t_fires = 1 => (timer.has_just_finished /\ timer.paused)
        /\ (t_calls > 0 /\ t_prev.paused) => timer = t_prev
        /\ (t_calls > 0 /\ t_fires = 0) => (~timer.has_just_finished /\ ~timer.paused)

\* a one-shot timer that fired in an earlier call and was then ticked by a delta longer
\* than its period
C11_Witness ==
    /\ t_first.one_shot /\ ~t_first.paused /\ ~t_first.has_just_finished
    /\ t_calls = MaxCalls
    /\ t_fires = 1
    /\ t_prev.paused
    /\ t_delta > timer.total

\* C12: a Timer constructed with total <= 0 is rejected or clamped, so no Timer has
\* total <= 0 and no timer fires on ticks in which no time passes.
C12_TotalValidated ==
    /\ timer.total > 0
    /\ (t_calls = 1 /\ t_delta = 0) => ~timer.has_just_finished

\* C17: for a Timer made by Timer::new with total > 0 and ticked with deltas that are
\* each >= 0 and below remaining + total, the number of firing ticks is
\* floor(E / total) and remaining is total - (E mod total), E the elapsed time.
C17_PhasePreserved ==
    (t_first = Timer_new(t_first.total) /\ t_first.total > 0 /\ t_bounded) =>
        /\ t_fires = t_elapsed \div t_first.total
        /\ timer.remaining = t_first.total - (t_elapsed % t_first.total)

\* such a timer after MaxCalls calls, the last of which fired with an overshoot
C17_Witness ==
    /\ t_first = Timer_new(t_first.total)
    /\ t_bounded
    /\ t_calls = MaxCalls
    /\ t_fires >= 2
    /\ TimerFired
    /\ t_delta > t_prev.remaining
    /\ t_delta > t_first.total

----------------------------------------------------------------------------
(* Properties of GameState::tick, checked under Spec.  They are stated on   *)
(* the stages of the most recent tick, kept in the history variable last,   *)
(* and identify an enemy across stages by its history field id.             *)

Min(a, b) == IF a <= b THEN a ELSE b

Ids(es) == {es[i].id : i \in DOMAIN es}
Has(es, id) == id \in Ids(es)
Pos(es, id) == CHOOSE i \in DOMAIN es : es[i].id = id
Find(es, id) == es[Pos(es, id)]

IsAscending(es) == \A i, j \in DOMAIN es : i < j => es[i].distance <= es[j].distance

\* sub holds enemies of sup only, in the relative order they have in sup
SameOrder(sub, sup) ==
    /\ Ids(sub) \subseteq Ids(sup)
    /\ \A i, j \in DOMAIN sub : i < j => Pos(sup, sub[i].id) < Pos(sup, sub[j].id)

\* the attack activations of the most recent tick: the vector before, the vector after,
\* and the attack's damage, range and max_targets
Activations ==
    (IF ticks > 0 /\ last.basic_fired
     THEN {[before |-> last.sorted, after |-> last.after_basic, atk |-> last.basic]}
     ELSE {})
    \cup
    (IF ticks > 0 /\ last.big_fired
     THEN {[before |-> last.after_basic, after |-> last.after_big, atk |-> last.big]}
     ELSE {})

InRangeIds(a) == {a.before[i].id : i \in {j \in DOMAIN a.before : a.before[j].distance <= a.atk.range}}

\* the enemies an activation changed or removed
Touched(a) ==
    {id \in Ids(a.before) : ~Has(a.after, id) \/ Find(a.after, id) # Find(a.before, id)}

\* enemy id of the vector before, with the attack's damage taken off its hit points
Hit(a, id) == [Find(a.before, id) EXCEPT !.hp.current = @ - a.atk.damage]

\* C1: in a tick where an attack fires, with the enemies sorted ascending by distance and
\* k of them within range, exactly the min(max_targets, k) closest in-range enemies are
\* struck (hp.current reduced by exactly the damage, or killed by that hit); every other
\* enemy is retained with all fields unchanged.
C1_AttackTargetCap ==
    \A a \in Activations :
        IsAscending(a.before) =>
            /\ Ids(a.after) \subseteq Ids(a.before)
            /\ Cardinality(Touched(a)) = Min(a.atk.max_targets, Cardinality(InRangeIds(a)))
            /\ Touched(a) \subseteq InRangeIds(a)
            /\ \A t \in Touched(a) : \A u \in InRangeIds(a) \ Touched(a) :
                   Find(a.before, t).distance <= Find(a.before, u).distance
            /\ \A t \in Touched(a) : Has(a.after, t) => Find(a.after, t) = Hit(a, t)
            /\ \A t \in Touched(a) : ~Has(a.after, t) => Hit(a, t).hp.current <= 0

\* an activation with more enemies in range than max_targets, one of the struck surviving
C1_Witness ==
    \E a \in Activations :
        /\ Cardinality(InRangeIds(a)) > a.atk.max_targets
        /\ \E t \in Touched(a) : Has(a.after, t)
        /\ \E u \in Ids(a.before) : Find(a.before, u).distance > a.atk.range

\* the enemies an activation strikes: in range, with fewer than max_targets in-range
\* enemies ahead of them in the vector
StruckIds(a) ==
    {id \in InRangeIds(a) :
        Cardinality({o \in InRangeIds(a) : Pos(a.before, o) < Pos(a.before, id)})
            < a.atk.max_targets}

\* C2: after an attack activation, a struck enemy is absent from the collection iff its
\* hp.current after the damage is <= 0 (exactly 0 included); a struck enemy left above 0
\* is present with only hp.current changed; a kill does not stop the walk: the in-range
\* enemies behind a killed one are still struck while target budget remains.
C2_KillRemoval ==
    \A a \in Activations :
        /\ \A id \in StruckIds(a) :
               /\ ~Has(a.after, id) <=> Hit(a, id).hp.current <= 0
               /\ Has(a.after, id) => Find(a.after, id) = Hit(a, id)
        /\ \A x, y \in StruckIds(a) :
               (Pos(a.before, x) < Pos(a.before, y) /\ ~Has(a.after, x))
                   => (~Has(a.after, y) \/ Find(a.after, y) = Hit(a, y))

\* an activation that leaves an enemy at exactly 0 and strikes an enemy behind it
C2_Witness ==
    \E a \in Activations : \E x, y \in StruckIds(a) :
        /\ Pos(a.before, x) < Pos(a.before, y)
        /\ Hit(a, x).hp.current = 0
        /\ ~Has(a.after, x)

\* the most recent tick resolved both attacks
BothFired == ticks > 0 /\ last.basic_fired /\ last.big_fired

BasicAct == [before |-> last.sorted, after |-> last.after_basic, atk |-> last.basic]

\* the enemies of the sorted vector the basic attack kills
KilledByBasic == {id \in StruckIds(BasicAct) : Hit(BasicAct, id).hp.current <= 0}

\* the enemies the big attack strikes when it walks the sorted vector without the
\* enemies the basic attack killed, with its own budget
BigStruck ==
    LET alive == Ids(last.sorted) \ KilledByBasic
        inr == {id \in alive : Find(last.sorted, id).distance <= last.big.range}
    IN {id \in inr :
           Cardinality({o \in inr : Pos(last.sorted, o) < Pos(last.sorted, id)})
               < last.big.max_targets}

\* hit points enemy id of the sorted vector loses in a tick that resolves both attacks
TickLoss(id) ==
    (IF id \in StruckIds(BasicAct) THEN last.basic.damage ELSE 0)
    + (IF id \in BigStruck THEN last.big.damage ELSE 0)

\* C3: when both timers fire in the same tick the basic attack is resolved first and the
\* big attack against what it left, each with its own max_targets budget: an enemy killed
\* by the basic attack takes no big-attack damage and none of the big attack's budget; an
\* enemy that survives the basic attack and is struck by the big one loses both damages.
C3_AttackOrder ==
    BothFired =>
        /\ Ids(last.after_big) \subseteq Ids(last.sorted)
        /\ \A id \in Ids(last.sorted) :
               LET e == Find(last.sorted, id)
                   left == e.hp.current - TickLoss(id)
               IN /\ Has(last.after_big, id)
                        <=> (id \notin KilledByBasic /\ ~(id \in BigStruck /\ left <= 0))
                  /\ Has(last.after_big, id)
                        => Find(last.after_big, id) = [e EXCEPT !.hp.current = left]

\* a tick in which an enemy is struck by both attacks and survives them
C3_StruckByBoth ==
    /\ BothFired
    /\ \E id \in StruckIds(BasicAct) \cap BigStruck : Has(last.after_big, id)

\* a tick in which the basic attack kills an enemy and the big attack strikes another
C3_Witness ==
    /\ BothFired
    /\ KilledByBasic # {}
    /\ BigStruck # {}

\* enemy e after moving for delta
Moved(e, delta) == [e EXCEPT !.distance = e.distance - e.speed * delta]

\* the enemies of the vector before the most recent tick that arrived in it
Arrived ==
    {id \in Ids(last.pre_enemies) :
        Find(last.pre_enemies, id).distance - Find(last.pre_enemies, id).speed * last.delta <= 0}

RECURSIVE SumOver(_, _)
SumOver(S, es) ==
    IF S = {} THEN 0
    ELSE LET id == CHOOSE x \in S : TRUE IN Find(es, id).damage + SumOver(S \ {id}, es)

\* C4: in every tick each live enemy's distance decreases by speed * delta; an enemy whose
\* resulting distance is <= 0 (exactly 0 included) is absent after the tick and the Base's
\* hp.current decreases by exactly the sum of the damage of the arrived enemies; an enemy
\* whose resulting distance is > 0 is kept with only its distance changed by the movement;
\* no enemy with distance <= 0 is in the live collection at the end of a tick.
C4_EnemyArrival ==
    /\ ticks > 0 =>
        /\ \A id \in Arrived : ~Has(last.kept, id) /\ ~Has(last.after_big, id)
        /\ \A id \in Ids(last.pre_enemies) \ Arrived :
               /\ Has(last.kept, id)
               /\ Find(last.kept, id) = Moved(Find(last.pre_enemies, id), last.delta)
        /\ Ids(last.kept) \subseteq Ids(last.pre_enemies)
        /\ last.hp.maximum = last.pre_hp.maximum
        /\ last.hp.current = last.pre_hp.current - SumOver(Arrived, last.pre_enemies)
    /\ \A i \in DOMAIN enemies : enemies[i].distance > 0

\* a tick in which one enemy arrives at exactly 0, with damage, and another is kept
C4_Witness ==
    /\ ticks > 0
    /\ \E id \in Arrived :
           /\ Moved(Find(last.pre_enemies, id), last.delta).distance = 0
           /\ Find(last.pre_enemies, id).damage > 0
    /\ last.kept # <<>>
    /\ last.delta > 0

\* C5: in every tick exactly one enemy is added to the collection handed to the sort and
\* attack stages if the spawner timer fired in that tick, none otherwise, also when delta
\* spans several spawn periods; the added enemy has hp.current = hp.maximum = maximum_hp,
\* the spawner's damage and speed, and distance 100.
C5_Spawning ==
    ticks > 0 =>
        IF last.spawner_fired
        THEN /\ Len(last.spawned) = Len(last.kept) + 1
             /\ SubSeq(last.spawned, 1, Len(last.kept)) = last.kept
             /\ LET new == last.spawned[Len(last.spawned)] IN
                    /\ new.hp.current = last.spawner.maximum_hp
                    /\ new.hp.maximum = last.spawner.maximum_hp
                    /\ new.damage = last.spawner.damage
                    /\ new.speed = last.spawner.speed
                    /\ new.distance = 100 * PerUnit
                    /\ ~Has(last.pre_enemies, new.id)
                    /\ \E i \in DOMAIN last.sorted : last.sorted[i] = new
             /\ Len(last.sorted) = Len(last.kept) + 1
        ELSE /\ last.spawned = last.kept
             /\ Len(last.sorted) = Len(last.kept)

\* a tick whose delta spans several spawn periods, taken with the speed slider moved
C5_Witness ==
    /\ ticks > 0
    /\ last.spawner_fired
    /\ last.delta >= 2 * last.spawner.timer.total
    /\ last.spawner.speed # DefaultSpawner.speed
    /\ last.kept # <<>>

\* C6: from a state with no enemies, a tick in which the spawner timer fires leaves exactly
\* one enemy, at distance 100, also when an attack fires in that tick.
C6_SpawnThenSort ==
    (ticks > 0 /\ last.pre_enemies = <<>> /\ last.spawner_fired)
        => (Len(last.after_big) = 1 /\ last.after_big[1].distance = 100 * PerUnit
            /\ enemies = last.after_big)

\* such a tick, in which the basic attack fired too
C6_Witness ==
    /\ ticks > 0
    /\ last.pre_enemies = <<>>
    /\ last.spawner_fired
    /\ last.basic_fired

\* C7: at the end of every tick the live collection is in ascending order of distance and
\* is the stable sort of the survivors of movement, in their previous relative order,
\* followed by the new enemy; equal distances keep their previous relative order, both
\* attacks see this order and neither reorders the enemies it retains.
C7_Ordering ==
    /\ IsAscending(enemies)
    /\ ticks > 0 =>
        /\ enemies = last.after_big
        /\ SameOrder(last.kept, last.pre_enemies)
        /\ SubSeq(last.spawned, 1, Len(last.kept)) = last.kept
        /\ IsAscending(last.sorted)
        /\ Len(last.sorted) = Len(last.spawned)
        /\ {last.sorted[i] : i \in DOMAIN last.sorted}
               = {last.spawned[i] : i \in DOMAIN last.spawned}
        /\ \A i, j \in DOMAIN last.spawned :
               (i < j /\ last.spawned[i].distance = last.spawned[j].distance)
                   => Pos(last.sorted, last.spawned[i].id) < Pos(last.sorted, last.spawned[j].id)
        /\ SameOrder(last.after_basic, last.sorted)
        /\ SameOrder(last.after_big, last.after_basic)

\* a tick whose sort moved an enemy past others while two enemies were at one distance
C7_Witness ==
    /\ ticks > 0
    /\ last.sorted # last.spawned
    /\ \E i, j \in DOMAIN last.spawned :
           i < j /\ last.spawned[i].distance = last.spawned[j].distance

\* C13: from the default state, under any interleaving of ticks and Reset HP clicks, the
\* Base's hp.current never exceeds hp.maximum (100); a tick never increases hp.current;
\* reset sets hp.current to exactly hp.maximum and leaves hp.maximum unchanged.
C13_BaseHpBounded ==
    /\ excellency.hp.current <= excellency.hp.maximum
    /\ excellency.hp.maximum = 100
    /\ ticks > 0 =>
        /\ last.hp.current <= last.pre_hp.current
        /\ last.hp.maximum = last.pre_hp.maximum
        /\ \/ excellency.hp = last.hp
           \/ excellency.hp = [maximum |-> last.hp.maximum, current |-> last.hp.maximum]

\* Reset HP was clicked after a tick in which an enemy damaged the Base
C13_Witness ==
    /\ ticks > 0
    /\ last.hp.current < last.pre_hp.current
    /\ excellency.hp.current = excellency.hp.maximum

\* C16: an enemy whose distance becomes <= 0 in a tick always damages the Base in that
\* tick, also when an attack that could have killed it fires in the same tick; the
\* attacks only ever evaluate enemies whose distance after movement is > 0.
C16_ArrivalBeforeAttacks ==
    ticks > 0 =>
        /\ \A i \in DOMAIN last.sorted : last.sorted[i].distance > 0
        /\ \A a \in Activations : \A i \in DOMAIN a.before : a.before[i].distance > 0
        /\ \A id \in Arrived :
               /\ ~Has(last.sorted, id)
               /\ \A a \in Activations : ~Has(a.before, id) /\ ~Has(a.after, id)
        /\ last.pre_hp.current - last.hp.current = SumOver(Arrived, last.pre_enemies)

\* an enemy arrives, with damage, in a tick in which an attack fires whose damage is at
\* least the enemy's hit points
C16_Witness ==
    /\ ticks > 0
    /\ \E id \in Arrived : \E a \in Activations :
           /\ Find(last.pre_enemies, id).damage > 0
           /\ a.atk.damage >= Find(last.pre_enemies, id).hp.current
           /\ Find(last.pre_enemies, id).hp.current > 0

\* a period of a timer made by Timer::new(total) at time 0 ended within the most recent tick
PeriodEnded(total) ==
    (last.elapsed \div total) > ((last.elapsed - last.delta) \div total)

\* C18: has_just_finished is true after a tick only if the period elapsed during that
\* tick, so GameState::tick spawns an enemy, or resolves an attack, in a tick only if
\* the timer's period ended during that tick.
C18_FlagIsEdge ==
    ticks > 0 =>
        /\ last.spawner_fired => PeriodEnded(last.spawner.timer.total)
        /\ last.basic_fired => PeriodEnded(last.pre_basic_timer.total)
        /\ last.big_fired => PeriodEnded(last.pre_big_timer.total)

\* C19: at the end of a tick every enemy in the live collection has
\* 0 < hp.current <= hp.maximum and 0 < distance <= 100, for every spawner
\* configuration the sliders allow.
C19_LiveEnemiesAlive ==
    \A i \in DOMAIN enemies :
        /\ 0 < enemies[i].hp.current
        /\ enemies[i].hp.current <= enemies[i].hp.maximum
        /\ 0 < enemies[i].distance
        /\ enemies[i].distance <= 100 * PerUnit

\* C20: with every delta >= d > 0 and speed s > 0, a spawned enemy is removed at the
\* latest in the ceil(100 / (s * d))-th tick after the tick that spawned it: after n
\* ticks it is live only if s * d * n < 100, d the least delta of those ticks.
C20_EnemyLeaves ==
    \A i \in DOMAIN lives :
        LET l == lives[i] IN
        (l.dmin > 0 /\ l.speed > 0) =>
            IF l.left > 0
            THEN l.speed * l.dmin * (l.left - l.born - 1) < 100 * PerUnit
            ELSE l.speed * l.dmin * (ticks - l.born) < 100 * PerUnit

\* an enemy removed exactly in the last tick the bound allows, several ticks after its spawn
C20_Witness ==
    \E i \in DOMAIN lives :
        LET l == lives[i] IN
        /\ l.left > 0
        /\ l.dmin > 0
        /\ l.left - l.born >= 3
        /\ l.speed * l.dmin * (l.left - l.born) >= 100 * PerUnit
        /\ l.speed * l.dmin * (l.left - l.born - 1) < 100 * PerUnit

\* C14: from the default state, 80 ticks with delta = 0.5 all complete and the number of
\* live enemies at the end of every tick never exceeds 20.
C14_EnemyCountBounded ==
    /\ Len(enemies) <= 20
    /\ \A i \in DOMAIN last.spawned : last.spawned[i].distance \in Int
    /\ ticks > 0 => (last.delta = PerUnit \div 2 /\ last.elapsed = ticks * last.delta)

\* the end of the run, after enemies arrived, with enemies live
C14_Witness ==
    /\ ticks = E2ETicks
    /\ enemies # <<>>
    /\ next_id >= 40
    /\ excellency.hp.current < excellency.hp.maximum

\* C15: the Base's hp.current <= 0 ends nothing: GameState::tick is enabled in every
\* state, whatever hp.current is, and a tick that starts with hp.current <= 0 performs
\* every stage as with positive hit points: every enemy moves, the arrived ones are
\* removed and their damage is subtracted from hp.current (further below zero), the
\* spawner adds an enemy when its timer fires, and an attack that fires strikes
\* min(max_targets, in range) enemies.
C15_NoTerminalState ==
    /\ ticks < SiegeTicks => ENABLED SiegeTick
    /\ (ticks > 0 /\ last.pre_hp.current <= 0) =>
        /\ last.hp.current = last.pre_hp.current - SumOver(Arrived, last.pre_enemies)
        /\ excellency.hp = last.hp
        /\ Ids(last.kept) = Ids(last.pre_enemies) \ Arrived
        /\ \A id \in Ids(last.kept) :
               Find(last.kept, id) = Moved(Find(last.pre_enemies, id), last.delta)
        /\ Len(last.spawned) = Len(last.kept) + (IF last.spawner_fired THEN 1 ELSE 0)
        /\ last.spawner_fired => last.spawned[Len(last.spawned)].distance = 100 * PerUnit
        /\ \A a \in Activations :
               /\ Cardinality(Touched(a)) = Min(a.atk.max_targets, Cardinality(InRangeIds(a)))
               /\ \A id \in Touched(a) : Has(a.after, id) => Find(a.after, id) = Hit(a, id)
        /\ enemies = last.after_big

\* a tick that started with hp.current <= 0 in which an enemy arrived and lowered
\* hp.current further, another enemy moved and was struck, and an enemy was spawned
C15_Witness ==
    /\ ticks > 0
    /\ last.pre_hp.current <= 0
    /\ last.hp.current < last.pre_hp.current
    /\ Arrived # {}
    /\ last.kept # <<>>
    /\ last.spawner_fired
    /\ \E a \in Activations : Touched(a) # {}

====
